---- MODULE Spec2Model ----
(***************************************************************************)
(* A model of lmalocate: the correlator (phasor.py, class Phasor), the raw *)
(* file reader (raw_io.py, class RawLMAFile) with its packet decoders      *)
(* (StatusPacket, DataPacket), and the frame container (LMAFrame).         *)
(*                                                                         *)
(* Three specifications share the variables:                               *)
(*   SpecPhasor  the constructor of Phasor: phase_raw_data, then the loop  *)
(*               of find_initial_guesses, one iteration per step;          *)
(*   SpecFile    the constructor of RawLMAFile on a byte file: find_status *)
(*               (bootstrap, then one loop iteration of the forward or the *)
(*               backward search per step), then read_frame calls;         *)
(*   SpecFrame   an LMAFrame under decimate.                               *)
(***************************************************************************)
EXTENDS Integers, Sequences, FiniteSets, TLC

VARIABLES
    \* ---- Phasor (phasor.py)
    frames,         \* self.frames: sensor -> the frame's nano column
    cartesian,      \* self.cartesian: the phase center (one coordinate)
    windowLength,   \* self.windowLength
    minSensors,     \* self.minSensors
    sortedPeaks,    \* self.sortedPeaks: rows [src, sensor, nano]
    guesses,        \* self.guesses: index ranges, each [lo, hi) as <<lo, hi>>
    lastGuess,      \* local lastGuess of find_initial_guesses
    iGuess,         \* local iGuess of find_initial_guesses
    phPc,           \* position in Phasor.__init__
    \* ---- RawLMAFile (raw_io.py)
    inputFile,      \* the bytes of the file at inputPath
    raw,            \* the RawLMAFile object: its fields, and the scan's position
    result,         \* what the last read_frame call returned or raised
    \* ---- LMAFrame (raw_io.py)
    arr,            \* self._arr: records [nano, power, aboveThresh]
    lastOp,         \* the last operation applied to the frame, with its argument
    \* ---- two LMAFrame objects and the arrays they refer to (raw_io.py)
    heap,           \* the numpy arrays allocated so far, by identity 1..Len(heap)
    frameF,              \* the frame f: arr is the identity of f._arr, 0 for None
    frameF2,             \* what the name f2 is bound to by f2 = f.copy(...)
    lastCall,       \* the last method call on f or f2, and the exception it raised
    nCalls,         \* the number of method calls made
    \* ---- the packet decoders called on their own (raw_io.py)
    codecIn,        \* the call: the field values, the bytes built from them, the arguments
    codecOut,       \* None before the call, then what StatusPacket / DataPacket gave
    codecCall,      \* the last call made: "none", "__init__", then a method's name
    \* ---- decode_gpsInfo called on a new RawLMAFile object (the variable raw)
    slotSeen,       \* slot (second mod 12) -> the gpsInfo last observed there, -1 for none
    nObs            \* the number of observations made

vars == <<frames, cartesian, windowLength, minSensors, sortedPeaks, guesses,
          lastGuess, iGuess, phPc, inputFile, raw, result, arr, lastOp,
          heap, frameF, frameF2, lastCall, nCalls,
          codecIn, codecOut, codecCall, slotSeen, nObs>>

phasorVars == <<frames, cartesian, windowLength, minSensors, sortedPeaks,
                guesses, lastGuess, iGuess, phPc>>
fileVars == <<inputFile, raw, result>>
frameVars == <<arr, lastOp>>
copyVars == <<heap, frameF, frameF2, lastCall, nCalls>>
codecVars == <<codecIn, codecOut, codecCall>>
almanacVars == <<slotSeen, nObs>>

(***************************************************************************)
(* Generic helpers                                                         *)
(***************************************************************************)
Abs(x) == IF x < 0 THEN -x ELSE x

Range(s) == {s[k] : k \in 1..Len(s)}

RECURSIVE Reverse(_)
Reverse(s) == IF s = <<>> THEN <<>> ELSE Append(Reverse(Tail(s)), Head(s))

\* The strictly increasing sequence listing the set of integers S.
RECURSIVE SetToSeq(_)
SetToSeq(S) ==
    IF S = {} THEN <<>>
    ELSE LET m == CHOOSE x \in S : \A y \in S : x <= y
         IN  <<m>> \o SetToSeq(S \ {m})

(***************************************************************************)
(* Phasor                                                                  *)
(***************************************************************************)
\* Bounds of the correlator's inputs.
MaxPeaks == 2
MaxTime == 2

\* The sensors, in the order of self.sensorIds; sensor s stands at coordinate s.
Sensors == {0, 1, 2}
Centers == {0, 1}
WindowLengths == {2, 50}
MinSensorsChoices == {0, 1, 2}

\* A frame's nano column: a strictly increasing sequence of at most MaxPeaks
\* arrival times out of 0..MaxTime.
FrameNanos ==
    {SetToSeq(S) : S \in {T \in SUBSET (0..MaxTime) : Cardinality(T) <= MaxPeaks}}

\* euclidean_propagation on a line, in units where Cns = 1: the distance
\* between the phase center and the sensor.
euclidean_propagation(ob1, ob2) == Abs(ob1 - ob2)

\* set_sensor_locations: self.sensorIds lists the keys of self.frames.
sensorIds == SetToSeq(DOMAIN frames)

\* The rows one sensor contributes to sortedPeaks (lines 105-113):
\* source time, sensor index, arrival time.
PeakRows(i, nano, dt) ==
    [k \in 1..Len(nano) |-> [src |-> nano[k] - dt, sensor |-> i, nano |-> nano[k]]]

\* The loop of phase_raw_data over the sensors, before the sort.
RECURSIVE ExtendPeaks(_, _)
ExtendPeaks(peaks, i) ==
    IF i >= Len(sensorIds) THEN peaks
    ELSE LET id == sensorIds[i + 1]
             dt == euclidean_propagation(cartesian, id)
         IN  ExtendPeaks(peaks \o PeakRows(i, frames[id], dt), i + 1)

\* argsort on column 0 (lines 118-119): the default sort is not stable, so
\* rows of equal source time may come out in any order. The orders of the
\* rows of sorted with row added: row at any place that keeps column 0
\* non-decreasing.
InsertRow(sorted, row) ==
    {SubSeq(sorted, 1, k) \o <<row>> \o SubSeq(sorted, k + 1, Len(sorted)) :
        k \in {j \in 0..Len(sorted) :
                 /\ \A l \in 1..j : sorted[l].src <= row.src
                 /\ \A l \in (j + 1)..Len(sorted) : row.src <= sorted[l].src}}

RECURSIVE ArgSort(_)
ArgSort(peaks) ==
    IF peaks = <<>> THEN {<<>>}
    ELSE UNION {InsertRow(sorted, peaks[Len(peaks)]) :
                   sorted \in ArgSort(SubSeq(peaks, 1, Len(peaks) - 1))}

\* phase_raw_data (lines 88-119): the arrays self.sortedPeaks may become.
phase_raw_data == ArgSort(ExtendPeaks(<<>>, 0))

\* A window growth that also takes the row exactly W after row i.
RECURSIVE GrowWindow_Inclusive(_, _, _, _)
GrowWindow_Inclusive(peaks, i, n, W) ==
    IF i + n >= Len(peaks) THEN -1
    ELSE IF peaks[i + n + 1].src - peaks[i + 1].src <= W
         THEN GrowWindow_Inclusive(peaks, i, n + 1, W)
         ELSE n

\* The inner while of find_initial_guesses (lines 131-133), from window
\* length n: the final n, or -1 when the test reads row iGuess+n past the end
\* of sortedPeaks (numpy raises IndexError).
RECURSIVE GrowWindow(_, _, _, _)
GrowWindow(peaks, i, n, W) ==
    IF i + n >= Len(peaks) THEN -1
    ELSE IF peaks[i + n + 1].src - peaks[i + 1].src < W
         THEN GrowWindow(peaks, i, n + 1, W)
         ELSE n

\* The set built at lines 136-139: the sensors of rows [i, i+n).
WindowSensors(peaks, i, n) == {peaks[k + 1].sensor : k \in i..(i + n - 1)}

\* AcceptGuess without the distinct-sensor test of line 140.
AcceptGuess_CountRows(peaks, i, n, last, minS) ==
    /\ n > minS
    /\ i + n > last

\* AcceptGuess without the watermark test of line 134.
AcceptGuess_NoWatermark(peaks, i, n, last, minS) ==
    /\ n > minS
    /\ Cardinality(WindowSensors(peaks, i, n)) > minS

\* The test of lines 134 and 140 that appends the window to self.guesses.
AcceptGuess(peaks, i, n, last, minS) ==
    /\ n > minS
    /\ i + n > last
    /\ Cardinality(WindowSensors(peaks, i, n)) > minS

\* The loop test of line 130.
GuessLoopTest(peaks, i, minS) == i < Len(peaks) - minS

InitPhasorIdle ==
    /\ frames = <<>>
    /\ cartesian = 0
    /\ windowLength = 0
    /\ minSensors = 0
    /\ sortedPeaks = <<>>
    /\ guesses = <<>>
    /\ lastGuess = 0
    /\ iGuess = 0
    /\ phPc = "idle"

InitPhasor ==
    /\ frames \in [Sensors -> FrameNanos]
    /\ cartesian \in Centers
    /\ windowLength \in WindowLengths
    /\ minSensors \in MinSensorsChoices
    /\ sortedPeaks = <<>>
    /\ guesses = <<>>
    /\ lastGuess = 0
    /\ iGuess = 0
    /\ phPc = "phase_raw_data"

\* Phasor.__init__, line 58.
PhaseRawData ==
    /\ phPc = "phase_raw_data"
    /\ sortedPeaks' \in phase_raw_data
    /\ phPc' = "find_initial_guesses"
    /\ UNCHANGED <<frames, cartesian, windowLength, minSensors, guesses,
                   lastGuess, iGuess>>
    /\ UNCHANGED <<fileVars, frameVars, copyVars, codecVars, almanacVars>>

\* One iteration of the outer while of find_initial_guesses (lines 130-147).
GuessIterate ==
    /\ phPc = "find_initial_guesses"
    /\ GuessLoopTest(sortedPeaks, iGuess, minSensors)
    /\ LET n == GrowWindow(sortedPeaks, iGuess, 1, windowLength)
       IN  IF n = -1
           THEN /\ phPc' = "IndexError"
                /\ UNCHANGED <<guesses, lastGuess, iGuess>>
           ELSE /\ phPc' = phPc
                /\ iGuess' = iGuess + 1
                /\ IF AcceptGuess(sortedPeaks, iGuess, n, lastGuess, minSensors)
                   THEN /\ guesses' = Append(guesses, <<iGuess, iGuess + n>>)
                        /\ lastGuess' = iGuess + n
                   ELSE UNCHANGED <<guesses, lastGuess>>
    /\ UNCHANGED <<frames, cartesian, windowLength, minSensors, sortedPeaks>>
    /\ UNCHANGED <<fileVars, frameVars, copyVars, codecVars, almanacVars>>

\* The outer while ends: find_initial_guesses returns.
GuessReturn ==
    /\ phPc = "find_initial_guesses"
    /\ ~GuessLoopTest(sortedPeaks, iGuess, minSensors)
    /\ phPc' = "done"
    /\ UNCHANGED <<frames, cartesian, windowLength, minSensors, sortedPeaks,
                   guesses, lastGuess, iGuess>>
    /\ UNCHANGED <<fileVars, frameVars, copyVars, codecVars, almanacVars>>

(***************************************************************************)
(* Packet decoders (raw_io.py, StatusPacket and DataPacket)                *)
(*                                                                         *)
(* A byte string is a sequence of 0..255.  A 16-bit word is kept as its    *)
(* unsigned value u; the signed value struct.unpack('<h') yields is        *)
(* negative exactly when u >= 32768, and every mask of the decoders reads  *)
(* bits 0..15 only, where the two agree.  A character is its code point,   *)
(* the empty string is 0, and None is the record None.                     *)
(***************************************************************************)
None == [none |-> TRUE]

Shr(x, k) == x \div (2 ^ k)
Low(x, k) == x % (2 ^ k)
Bit(x, k) == (x \div (2 ^ k)) % 2
Negative(u) == u >= 32768

\* struct.unpack('<nh', s): the n words of s (Len(s) = 2n).
Unpack(s, n) == [k \in 1..n |-> s[2 * k - 1] + 256 * s[2 * k]]

\* timestamp2epoch of the timestamp calc_epoch formats: seconds since
\* 1970-01-01 of the calendar fields, by the days-from-civil rule.
timestamp2epoch(year, month, day, hour, minute, second) ==
    LET y == IF month <= 2 THEN year - 1 ELSE year
        era == y \div 400
        yoe == y - era * 400
        mp == IF month > 2 THEN month - 3 ELSE month + 9
        doy == (153 * mp + 2) \div 5 + day - 1
        doe == yoe * 365 + yoe \div 4 - yoe \div 100 + doy
        days == era * 146097 + doe - 719468
    IN  days * 86400 + hour * 3600 + minute * 60 + second

\* The fields decode_1011 and decode_1213 share (lines 515-523, 543-551),
\* with the attribute prototypes of __init__ (lines 439-456).
StatusCommon(w, version) ==
    [version      |-> version,
     year         |-> Low(w[1], 7) + 2000,
     threshold    |-> Low(w[2], 8),
     fifoStatus   |-> Low(Shr(w[3], 12), 3),
     second       |-> Low(Shr(w[3], 6), 6),
     minute       |-> Low(w[3], 6),
     hour         |-> Low(Shr(w[4], 9), 5),
     day          |-> Low(Shr(w[4], 4), 5),
     month        |-> Low(w[4], 4),
     triggerCount |-> Low(w[5], 14),
     id           |-> Bit(w[2], 12) * 128 + Low(Shr(w[6], 8), 7) + 64,
     phaseDiff    |-> IF Bit(w[2], 14) = 1 THEN -Low(w[7], 15) ELSE Low(w[7], 15),
     gpsInfo      |-> Low(w[8], 15) + Bit(w[2], 13) * 32768,
     geodetic     |-> None,
     cartesian    |-> None]

\* decode_1011: no network id.
decode_1011(w, version) == [netid |-> 0] @@ StatusCommon(w, version)

\* decode_1213: the network id is the low byte of word 5.
decode_1213(w, version) == [netid |-> Low(w[6], 8) + 64] @@ StatusCommon(w, version)

\* calc_epoch (lines 466-472).
calc_epoch(p) ==
    [epoch |-> timestamp2epoch(p.year, p.month, p.day, p.hour, p.minute, p.second)] @@ p

\* A sign test that looks at the six words every layout has.
StatusSigns_SixWords(w, version) ==
    \A k \in 1..6 : Negative(w[k])

\* The sign test of StatusPacket.__init__ (line 460) on the kept words.
StatusSigns(w, version) ==
    \A k \in 1..(IF version < 10 THEN 6 ELSE 9) : Negative(w[k])

\* StatusPacket(inputString): [ok |-> TRUE, pkt |-> the packet] or
\* [ok |-> FALSE, err |-> the exception].
StatusPacket(inputString) ==
    IF Len(inputString) # 18 THEN [ok |-> FALSE, err |-> "struct.error"]
    ELSE LET w == Unpack(inputString, 9)
             version == Low(Shr(w[1], 7), 6)
         IN  IF ~StatusSigns(w, version)
             THEN [ok |-> FALSE, err |-> "MalformedRecord"]
             ELSE IF version \in {10, 11}
             THEN [ok |-> TRUE, pkt |-> calc_epoch(decode_1011(w, version))]
             ELSE IF version \in {12, 13}
             THEN [ok |-> TRUE, pkt |-> calc_epoch(decode_1213(w, version))]
             ELSE [ok |-> FALSE, err |-> "UnsupportedVersion"]

\* The sign pattern of DataPacket.__init__ (lines 591-593): +, -, +.
DataSigns(w) == ~Negative(w[1]) /\ Negative(w[2]) /\ ~Negative(w[3])

\* int(ticks * samplePeriod) of decode_12, samplePeriod = 1e9 / (25000000 +
\* phaseDiff): floor(ticks * 1e9 / B), computed without leaving 32 bits as
\* 40 * ticks - ceil(40 * ticks * phaseDiff / B).
TickNanos(ticks, phaseDiff) ==
    LET B == 25000000 + phaseDiff
        q == (ticks * phaseDiff) \div B
        r == (ticks * phaseDiff) % B
    IN  40 * ticks - 40 * q + ((-(40 * r)) \div B)

\* decode_12 (lines 657-675). power is kept in thousandths of a dBm.
decode_12(w, phaseDiff) ==
    [aboveThresh |-> Shr(w[1], 11) + Shr(w[3], 8) * 16,
     nano        |-> Low(w[2], 14) * 80000 + TickNanos(Low(w[1], 11), phaseDiff),
     power       |-> 488 * Low(w[3], 8) - 111000]

\* What read_frame gets from DataPacket(inputString, version, phaseDiff) and
\* its reads of d.nano, d.power, d.aboveThresh (lines 300-304): decode (lines
\* 598-604) sets them for versions 10 and 12 only.
DataPacket(inputString, version, phaseDiff) ==
    IF Len(inputString) # 6 THEN [ok |-> FALSE, err |-> "struct.error"]
    ELSE LET w == Unpack(inputString, 3)
         IN  IF ~DataSigns(w) THEN [ok |-> FALSE, err |-> "MalformedRecord"]
             ELSE IF version \in {10, 12}
             THEN [ok |-> TRUE, rec |-> decode_12(w, phaseDiff)]
             ELSE [ok |-> FALSE, err |-> "AttributeError"]

\* decode_89 (lines 488-509): the attributes it assigns. The id is kept as
\* the integer it is, not as a character.
decode_89(w) ==
    [year         |-> Low(w[1], 7) + 2000,
     threshold    |-> Low(w[2], 8),
     fifoStatus   |-> Low(Shr(w[3], 12), 3),
     second       |-> Low(Shr(w[3], 6), 6),
     minute       |-> Low(w[3], 6),
     hour         |-> Low(Shr(w[4], 9), 5),
     day          |-> Low(Shr(w[4], 4), 5),
     month        |-> Low(w[4], 4),
     phaseDiff    |-> IF Bit(w[2], 14) = 1 THEN -Low(Shr(w[2], 8), 5)
                      ELSE Low(Shr(w[2], 8), 5),
     triggerCount |-> Low(w[6], 9) + Low(w[5], 7) * 512,
     id           |-> Low(Shr(w[5], 8), 7),
     idIsChar     |-> FALSE,
     track        |-> Low(Shr(w[6], 12), 4)]

\* The aboveThresh of decode_8 and decode_9 (lines 617, 642): bit 4 is the or
\* of bit 14 of word 1 and bit 8 of word 2.
AboveThresh89(w) ==
    Shr(w[1], 11)
    + (IF Bit(w[2], 14) = 1 \/ Bit(w[3], 8) = 1 THEN 16 ELSE 0)
    + Low(Shr(w[3], 9), 6) * 32

\* decode_8 (lines 606-629): 80 us windows, 40 ns ticks.
decode_8(w) ==
    [aboveThresh |-> AboveThresh89(w),
     nano        |-> Low(w[2], 14) * 80000 + Low(w[1], 11) * 40,
     power       |-> 488 * Low(w[3], 8) - 111000]

\* decode_9 (lines 631-655): 10 us windows, the window number continued in
\* bits 8-10 of word 0.
decode_9(w) ==
    [aboveThresh |-> AboveThresh89(w),
     nano        |-> (Low(w[2], 14) + Low(Shr(w[1], 8), 3) * 16384) * 10000
                     + Low(w[1], 8) * 40,
     power       |-> 488 * Low(w[3], 8) - 111000]

\* The object p after a method assigned the attributes of fields.
Assign(p, fields) ==
    [k \in DOMAIN p \cup DOMAIN fields |->
        IF k \in DOMAIN fields THEN fields[k] ELSE p[k]]

\* The attributes decode_1011 and decode_1213 assign, out of the model's
\* record of them: not the version and not the prototypes of __init__.
Assigned(r) ==
    [k \in DOMAIN r \ {"version", "geodetic", "cartesian"} |-> r[k]]
    @@ [idIsChar |-> TRUE]

\* The status packet p, its words w, after the call p.method().
StatusMethod(p, w, method) ==
    CASE method = "decode_89" -> Assign(p, decode_89(w))
      [] method = "decode_1011" -> Assign(p, Assigned(decode_1011(w, p.version)))
      [] method = "decode_1213" -> Assign(p, Assigned(decode_1213(w, p.version)))
      [] method = "decode" ->
            IF p.version \in {10, 11}
            THEN Assign(p, Assigned(decode_1011(w, p.version)))
            ELSE Assign(p, Assigned(decode_1213(w, p.version)))

\* What the reads of d.nano, d.power, d.aboveThresh give after the call
\* d.method() on a data packet of words w; out is what they gave before.
DataMethod(out, w, version, phaseDiff, method) ==
    CASE method = "decode_8" -> [ok |-> TRUE, rec |-> decode_8(w)]
      [] method = "decode_9" -> [ok |-> TRUE, rec |-> decode_9(w)]
      [] method = "decode_12" -> [ok |-> TRUE, rec |-> decode_12(w, phaseDiff)]
      [] method = "decode" ->
            IF version \in {10, 12}
            THEN [ok |-> TRUE, rec |-> decode_12(w, phaseDiff)]
            ELSE out

(***************************************************************************)
(* Input files.  The encoders lay fields out where the decoders read them; *)
(* they build the files Init draws from and model no code.                 *)
(***************************************************************************)
\* Bounds of the files: frames per file, data records per frame.
MaxFrames == 2
MaxTrig == 4

WordBytes(u) == <<u % 256, u \div 256>>

RECURSIVE Flatten(_)
Flatten(ss) == IF ss = <<>> THEN <<>> ELSE Head(ss) \o Flatten(Tail(ss))

\* A current-family status record: nine negative words.
EncodeStatus(f) ==
    Flatten(<<
        WordBytes(32768 + f.version * 128 + (f.year - 2000)),
        WordBytes(32768 + (IF f.phaseDiff < 0 THEN 16384 ELSE 0)
                  + (f.gpsInfo \div 32768) * 8192
                  + (((f.id - 64) \div 128) * 4096) + f.threshold),
        WordBytes(32768 + f.second * 64 + f.minute),
        WordBytes(32768 + f.hour * 512 + f.day * 16 + f.month),
        WordBytes(32768 + f.triggerCount),
        WordBytes(32768 + ((f.id - 64) % 128) * 256 + (f.netid - 64)),
        WordBytes(32768 + Abs(f.phaseDiff)),
        WordBytes(32768 + (f.gpsInfo % 32768)),
        WordBytes(32768) >>)

\* A data record of the current layout: words +, -, +.
EncodeData(d) ==
    Flatten(<<
        WordBytes((d.aboveThresh % 16) * 2048 + d.ticks),
        WordBytes(32768 + d.window),
        WordBytes((d.aboveThresh \div 16) * 256 + d.maxData) >>)

\* The sensor and network of the files, and a foreign sensor.
StationBytes == <<65, 66, 67>>
FileId == StationBytes[1]
FileNetid == StationBytes[2]
OtherId == StationBytes[3]

\* The status record closing second j of a file of the given version (j = 0:
\* the bootstrap record).
StatusFields(version, j, id, triggerCount) ==
    [version |-> version, year |-> 2020, month |-> 1, day |-> 9, hour |-> 0,
     minute |-> 0, second |-> j, threshold |-> 100, triggerCount |-> triggerCount,
     id |-> id, netid |-> FileNetid, phaseDiff |-> IF j % 2 = 1 THEN -j ELSE j,
     gpsInfo |-> 1000 + j]

\* Two kinds of data: record k (from 0) of a second.
\*   "plain": small tick counts and amplitudes.
\*   "loud":  later windows, strong peaks: the low bytes of the words of
\*            records 0..3 have their top bit set.
DataFields(kind, version, k) ==
    IF kind = "plain"
    THEN [ticks |-> 10 * k + 1, window |-> k + 1, maxData |-> 100 + k, aboveThresh |-> k]
    ELSE IF k = 0
    THEN [ticks |-> 5, window |-> 1,
          maxData |-> IF version >= 12 THEN 134 ELSE 133, aboveThresh |-> 0]
    ELSE IF k = 1
    THEN [ticks |-> 128, window |-> 256 + 128, maxData |-> 128, aboveThresh |-> 0]
    ELSE IF k = 2
    THEN [ticks |-> 128 + 256 * (FileNetid - 64), window |-> 512 + 128 + (FileId - 64),
          maxData |-> 128, aboveThresh |-> 0]
    ELSE [ticks |-> 128, window |-> 256 * k + 128, maxData |-> 200, aboveThresh |-> 0]

DataKinds == {"plain", "loud"}

RECURSIVE DataBytes(_, _, _, _)
DataBytes(kind, version, k, n) ==
    IF k >= n THEN <<>>
    ELSE EncodeData(DataFields(kind, version, k)) \o DataBytes(kind, version, k + 1, n)

\* What may be wrong with second j of a file:
\*   "none"    nothing: the file is well formed;
\*   "id"      its status record names a foreign sensor;
\*   "count1"  its status record counts one data record too many;
\*   "count4"  its status record counts four data records too many;
\*   "less1"   its status record counts one data record too few;
\*   "cut3"    its data lost their last 3 bytes.
Defects == {"none", "id", "count1", "count4", "less1", "cut3"}

SecondBytes(version, kind, j, n, defect) ==
    LET data == DataBytes(kind, version, 0, n)
        kept == IF defect = "cut3" /\ n > 0 THEN SubSeq(data, 1, Len(data) - 3) ELSE data
        count == CASE defect = "count1" -> n + 1
                   [] defect = "count4" -> n + 4
                   [] defect = "less1" /\ n > 0 -> n - 1
                   [] OTHER -> n
        id == IF defect = "id" THEN OtherId ELSE FileId
    IN  kept \o EncodeStatus(StatusFields(version, j, id, count))

\* The file: the bootstrap record, then the seconds 1..Len(counts); second
\* bad (0: none) carries the defect.
RECURSIVE SecondsBytes(_, _, _, _, _, _)
SecondsBytes(version, kind, counts, j, bad, defect) ==
    IF j > Len(counts) THEN <<>>
    ELSE SecondBytes(version, kind, j, counts[j], IF j = bad THEN defect ELSE "none")
         \o SecondsBytes(version, kind, counts, j + 1, bad, defect)

FileBytes(version, kind, counts, bad, defect) ==
    EncodeStatus(StatusFields(version, 0, FileId, 0))
    \o SecondsBytes(version, kind, counts, 1, bad, defect)

FileVersions == {10, 12}

TrigCounts == UNION {[1..m -> 0..MaxTrig] : m \in 1..MaxFrames}

\* The well-formed files: a bootstrap record, then seconds of data records
\* each closed by the status record that counts them, all of one sensor.
WellFormedFiles ==
    {FileBytes(v, kind, counts, 0, "none") :
        v \in FileVersions, kind \in DataKinds, counts \in TrigCounts}

\* A file of 24 bytes: the first 6 bytes of a status record, then a whole
\* status record of the file's sensor with the given trigger count, whose
\* second and minute are chosen so that the 18 bytes at offset 0 decode as a
\* status record of the same sensor too.
OverlapFile(version, triggerCount) ==
    LET station == (FileId - 64) * 256 + (FileNetid - 64)
        tail == [StatusFields(version, station \div 64, FileId, triggerCount)
                   EXCEPT !.minute = station % 64]
    IN  SubSeq(EncodeStatus(StatusFields(version, 0, FileId, 0)), 1, 6)
        \o EncodeStatus(tail)

OverlapFiles == {OverlapFile(v, tc) : v \in FileVersions, tc \in 0..1}

InputFiles ==
    {FileBytes(v, kind, counts, bad, defect) :
        v \in FileVersions, kind \in DataKinds, counts \in TrigCounts,
        bad \in 1..MaxFrames, defect \in Defects}
    \cup OverlapFiles

(***************************************************************************)
(* RawLMAFile (raw_io.py)                                                  *)
(*                                                                         *)
(* raw holds the object's fields, the file position pos of self.inputFile, *)
(* the local fileLocation of _search_forwards, and where the constructor   *)
(* stands (pc), what it raised (err) and whether it warned.  The 32-bit    *)
(* raw GPS fields are kept as [hi, lo], two 16-bit halves.                 *)
(***************************************************************************)
Half0 == [hi |-> 0, lo |-> 0]

\* f.read(n) at position pos.
ReadBytes(file, pos, n) ==
    IF pos >= Len(file) THEN <<>>
    ELSE SubSeq(file, pos + 1, IF pos + n <= Len(file) THEN pos + n ELSE Len(file))

\* The position after f.read(n) at pos.
ReadEnd(file, pos, n) ==
    IF pos >= Len(file) THEN pos
    ELSE IF pos + n <= Len(file) THEN pos + n ELSE Len(file)

\* convert_latlon without its scale 90/324000000: the signed 32-bit value.
convert_latlon(g) == (IF g.hi >= 32768 THEN g.hi - 65536 ELSE g.hi) * 65536 + g.lo

\* The branch of decode_gpsInfo for a slot (lines 207-250), g the gpsInfo.
StoreSlot(self, slot, g) ==
    LET high(x) == [hi |-> g, lo |-> x.lo]
        low(x) == [hi |-> x.hi, lo |-> g]
    IN  CASE slot = 0 -> [self EXCEPT !.gpslat = high(@),
                                      !.lat = convert_latlon(high(self.gpslat))]
          [] slot = 1 -> [self EXCEPT !.gpslat = low(@),
                                      !.lat = convert_latlon(low(self.gpslat))]
          [] slot = 2 -> [self EXCEPT !.gpslon = high(@),
                                      !.lon = convert_latlon(high(self.gpslon))]
          [] slot = 3 -> [self EXCEPT !.gpslon = low(@),
                                      !.lon = convert_latlon(low(self.gpslon))]
          [] slot = 4 -> [self EXCEPT !.gpsalt = high(@), !.alt = high(self.gpsalt)]
          [] slot = 5 -> [self EXCEPT !.gpsalt = low(@), !.alt = low(self.gpsalt)]
          [] slot = 6 -> [self EXCEPT !.vel = high(@)]
          [] slot = 7 -> [self EXCEPT !.vel = low(@)]
          [] slot = 8 -> [self EXCEPT !.brg = g]
          [] slot = 9 -> [self EXCEPT !.satTracked = Low(Shr(g, 8), 8),
                                      !.satVisible = Low(g, 8)]
          [] slot = 10 -> [self EXCEPT !.satStat = Low(g, 12)]
          [] OTHER -> [self EXCEPT !.temp = Shr(g, 8) - 40]

\* decode_gpsInfo with slot 3 written as line 221 (commented out) has it:
\* into the high half of the longitude.
decode_gpsInfo_Line221(self, statusPacket) ==
    StoreSlot(self,
              IF statusPacket.second % 12 = 3 THEN 2 ELSE statusPacket.second % 12,
              statusPacket.gpsInfo)

\* decode_gpsInfo (lines 205-250): the slot is second mod 12.
decode_gpsInfo(self, statusPacket) ==
    StoreSlot(self, statusPacket.second % 12, statusPacket.gpsInfo)

\* RawLMAFile.__init__ up to the call of find_status (lines 35-50).
NewRawLMAFile(decimated) ==
    [decimated |-> decimated,
     gpslat |-> Half0, gpslon |-> Half0, gpsalt |-> Half0,
     lat |-> 0, lon |-> 0, alt |-> Half0, vel |-> Half0, brg |-> 0,
     satTracked |-> -1, satVisible |-> -1, satStat |-> -1, temp |-> -1000,
     startEpoch |-> 0, endEpoch |-> 0,
     version |-> 0, id |-> 0, netid |-> 0, statusSize |-> 0,
     statusLocations |-> <<>>, statusPackets |-> <<>>,
     frameEpochs |-> <<>>, geodetic |-> None, cartesian |-> None,
     pos |-> 0, fileLocation |-> 0,
     pc |-> "find_status", err |-> "", warned |-> FALSE]

Raise(self, err) == [self EXCEPT !.pc = "raised", !.err = err]

\* A comparison that takes every status record as the file's.
SameSensor_Any(self, statusPacket) == TRUE

\* The id/netid test of lines 139 and 172.
SameSensor(self, statusPacket) ==
    statusPacket.id = self.id /\ statusPacket.netid = self.netid

\* Lines 144-147 and 177-180.
UpdateEndEpoch(self, statusPacket) ==
    IF statusPacket.epoch > self.endEpoch
    THEN [self EXCEPT !.endEpoch = statusPacket.epoch]
    ELSE self

\* find_status up to the choice of the search (lines 97-128).
find_status(file, self) ==
    LET r == StatusPacket(ReadBytes(file, 0, 18))
    IN  IF ~r.ok THEN Raise([self EXCEPT !.pos = ReadEnd(file, 0, 18)], r.err)
        ELSE [self EXCEPT
                !.version = r.pkt.version,
                !.id = r.pkt.id,
                !.netid = r.pkt.netid,
                !.startEpoch = r.pkt.epoch + 1,
                !.statusSize = IF r.pkt.version >= 10 THEN 18 ELSE 12,
                !.statusLocations = IF self.decimated THEN <<0>> ELSE <<>>,
                !.statusPackets = IF self.decimated THEN <<None>> ELSE <<>>,
                !.fileLocation = IF self.decimated
                                 THEN (IF r.pkt.version >= 10 THEN 18 ELSE 12) ELSE 0,
                !.pos = IF self.decimated THEN ReadEnd(file, 0, 18) ELSE Len(file),
                !.pc = IF self.decimated THEN "_search_forwards"
                       ELSE "_search_backwards"]

\* A forward search that takes every candidate that decodes.
ForwardAccepts_DecodeOnly(file, self) ==
    StatusPacket(ReadBytes(file, self.fileLocation, self.statusSize)).ok

\* Whether the candidate at fileLocation is taken as a status record: the
\* try block of lines 137-156 runs to its end.
ForwardAccepts(file, self) ==
    LET r == StatusPacket(ReadBytes(file, self.fileLocation, self.statusSize))
    IN  r.ok /\ SameSensor(self, r.pkt)

\* One iteration of the while of _search_forwards (lines 135-160).
ForwardIterate(file, self) ==
    LET r == StatusPacket(ReadBytes(file, self.fileLocation, self.statusSize))
        at == [self EXCEPT !.pos = ReadEnd(file, self.fileLocation, self.statusSize)]
    IN  IF ForwardAccepts(file, self)
        THEN LET s1 == UpdateEndEpoch(at, r.pkt)
                 s2 == [s1 EXCEPT
                          !.statusLocations = Append(@, self.fileLocation),
                          !.statusPackets = Append(@, r.pkt)]
                 s3 == decode_gpsInfo(s2, r.pkt)
             IN  [s3 EXCEPT !.fileLocation = @ + self.statusSize]
        ELSE [at EXCEPT !.fileLocation = @ + 3]

\* make_frameEpochs (lines 75-79): epoch -> iFrame, the index read_frame
\* takes (from 0, so statusPackets[iFrame + 1] here), later frames winning.
make_frameEpochs(statusPackets) ==
    LET iFrames == 1..(Len(statusPackets) - 1)
        epochs == {statusPackets[iFrame + 1].epoch : iFrame \in iFrames}
    IN  [e \in epochs |->
            CHOOSE iFrame \in iFrames :
                /\ statusPackets[iFrame + 1].epoch = e
                /\ \A m \in iFrames :
                      statusPackets[m + 1].epoch = e => m <= iFrame]

\* The end of __init__ (lines 63-73); latlonalt2xyz is kept symbolic.
Finalize(self) ==
    LET located == self.lat # 0 /\ self.lon # 0 /\ self.alt # Half0
        geodetic == IF located
                    THEN [lat |-> self.lat, lon |-> self.lon, alt |-> self.alt]
                    ELSE None
    IN  [self EXCEPT
           !.frameEpochs = make_frameEpochs(self.statusPackets),
           !.geodetic = geodetic,
           !.cartesian = IF located THEN [xyz |-> geodetic] ELSE None,
           !.pc = "open"]

\* One iteration of the while of _search_backwards (lines 166-193).
BackwardIterate(file, self) ==
    LET at == self.pos - self.statusSize
        r == StatusPacket(ReadBytes(file, at, self.statusSize))
        s0 == [self EXCEPT !.pos = ReadEnd(file, at, self.statusSize),
                            !.statusLocations = Append(@, at)]
    IN  IF ~r.ok THEN Raise(s0, r.err)
        ELSE LET s1 == [s0 EXCEPT !.statusPackets = Append(@, r.pkt)]
             IN  IF ~SameSensor(self, r.pkt) THEN Raise(s1, "InconsistentStream")
                 ELSE LET s2 == decode_gpsInfo(UpdateEndEpoch(s1, r.pkt), r.pkt)
                          stride == r.pkt.triggerCount * 6 + self.statusSize
                      IN  IF s2.pos > stride
                          THEN [s2 EXCEPT !.pos = @ - stride]
                          ELSE [s2 EXCEPT !.warned = TRUE, !.pc = "_search_backwards_end"]

\* The end of _search_backwards with the placeholder put first and the
\* reversal of lines 202-203 left out.
BackwardEnd_NoReverse(self) ==
    [self EXCEPT
       !.statusLocations = <<0>> \o @,
       !.statusPackets = <<None>> \o @]

\* The end of _search_backwards (lines 198-203).
BackwardEnd(self) ==
    [self EXCEPT
       !.statusLocations = Reverse(Append(@, 0)),
       !.statusPackets = Reverse(Append(@, None))]

\* seq[k] as Python indexes a list of length Len(seq): from 0, negative k
\* counting from the end.  PyInRange tells whether seq[k] raises IndexError.
PyInRange(seq, k) == -Len(seq) <= k /\ k < Len(seq)
PyIndex(seq, k) == IF k >= 0 THEN seq[k + 1] ELSE seq[Len(seq) + k + 1]

\* int(x / 6) of line 290: the quotient truncated towards zero.
TruncDiv6(x) == IF x >= 0 THEN x \div 6 ELSE -((-x) \div 6)

\* The test of line 267 with iStatus < 0 for iStatus <= 0.
FrameIndexRefused_Negative(iStatus, n) == iStatus < 0 \/ iStatus >= n

\* The test of line 267 that read_frame refuses iStatus.
FrameIndexRefused(iStatus, n) == iStatus <= 0 \/ iStatus >= n

\* The count of lines 286-290 without the decimated branch.
FrameCount_AlwaysTrigger(decimated, statusPacket, readStart, readEnd) ==
    statusPacket.triggerCount

\* The number of data packets read_frame decodes (lines 286-290).
FrameCount(decimated, statusPacket, readStart, readEnd) ==
    IF ~decimated THEN statusPacket.triggerCount
    ELSE TruncDiv6(readEnd - readStart)

\* The test of line 298 that stops the read at the end of the span.
OutOfBounds(pos, readEnd) == pos >= readEnd

\* The for loop of read_frame (lines 297-304) from its iteration i, the file
\* at pos: [err, pos, dataArray].
RECURSIVE ReadPackets(_, _, _, _, _, _, _, _)
ReadPackets(file, pos, readEnd, i, triggerCount, version, phaseDiff, dataArray) ==
    IF i >= triggerCount THEN [err |-> "", pos |-> pos, dataArray |-> dataArray]
    ELSE IF OutOfBounds(pos, readEnd)
    THEN [err |-> "TruncatedData", pos |-> pos, dataArray |-> dataArray]
    ELSE LET d == DataPacket(ReadBytes(file, pos, 6), version, phaseDiff)
             next == ReadEnd(file, pos, 6)
         IN  IF ~d.ok THEN [err |-> d.err, pos |-> next, dataArray |-> dataArray]
             ELSE ReadPackets(file, next, readEnd, i + 1, triggerCount, version,
                              phaseDiff, Append(dataArray, d.rec))

\* read_frame(iStatus) (lines 267-306): [self, result], the object after the
\* call and what the call returned or raised.
read_frame(file, self, iStatus) ==
    LET raised(obj, err) ==
            [self |-> obj,
             result |-> [kind |-> "raised", iStatus |-> iStatus, err |-> err]]
    IN
    IF FrameIndexRefused(iStatus, Len(self.statusLocations))
    THEN raised(self, "IndexOutOfRange")
    ELSE IF ~PyInRange(self.statusLocations, iStatus - 1)
            \/ ~PyInRange(self.statusLocations, iStatus)
    THEN raised(self, "IndexError")
    ELSE LET readStart == PyIndex(self.statusLocations, iStatus - 1) + self.statusSize
             readEnd == PyIndex(self.statusLocations, iStatus)
             packet == PyIndex(self.statusPackets, iStatus)
             at == IF iStatus >= 0 THEN iStatus + 1
                   ELSE Len(self.statusPackets) + iStatus + 1
         IN  IF packet = None THEN raised(self, "AttributeError")
             ELSE LET statusPacket == [packet EXCEPT !.geodetic = self.geodetic,
                                                     !.cartesian = self.cartesian]
                      s1 == [self EXCEPT !.statusPackets[at] = statusPacket]
                      triggerCount == FrameCount(self.decimated, statusPacket,
                                                 readStart, readEnd)
                  IN  IF triggerCount < 0 THEN raised(s1, "ValueError")
                      ELSE LET r == ReadPackets(file, readStart, readEnd, 0, triggerCount,
                                                statusPacket.version,
                                                statusPacket.phaseDiff, <<>>)
                               s2 == [s1 EXCEPT !.pos = r.pos]
                           IN  IF r.err # "" THEN raised(s2, r.err)
                               ELSE [self |-> s2,
                                     result |-> [kind |-> "LMAFrame",
                                                 iStatus |-> iStatus,
                                                 statusPacket |-> statusPacket,
                                                 arr |-> r.dataArray]]

\* The search find_status chose, run to the end of __init__ (lines 123-128
\* and 63-73): the iterations in turn.
RECURSIVE RunSearch(_, _)
RunSearch(file, self) ==
    CASE self.pc = "_search_forwards" ->
            IF self.fileLocation < Len(file)
            THEN RunSearch(file, ForwardIterate(file, self))
            ELSE Finalize(self)
      [] self.pc = "_search_backwards" ->
            IF self.pos > self.statusSize
            THEN RunSearch(file, BackwardIterate(file, self))
            ELSE Finalize(BackwardEnd(self))
      [] self.pc = "_search_backwards_end" -> Finalize(BackwardEnd(self))
      [] OTHER -> self

\* RawLMAFile(inputPath, decimated): the object constructed, or the one
\* whose constructor raised.
RawLMAFile(file, decimated) ==
    RunSearch(file, find_status(file, NewRawLMAFile(decimated)))

InitFileIdle ==
    /\ inputFile = <<>>
    /\ raw = None
    /\ result = None

InitFile ==
    /\ inputFile \in InputFiles
    /\ \E decimated \in BOOLEAN : raw = NewRawLMAFile(decimated)
    /\ result = None

\* RawLMAFile.__init__ to the start of the search.
FindStatus ==
    /\ raw.pc = "find_status"
    /\ raw' = find_status(inputFile, raw)
    /\ UNCHANGED <<inputFile, result, phasorVars, frameVars, copyVars, codecVars, almanacVars>>

SearchForwardsStep ==
    /\ raw.pc = "_search_forwards"
    /\ raw.fileLocation < Len(inputFile)
    /\ raw' = ForwardIterate(inputFile, raw)
    /\ UNCHANGED <<inputFile, result, phasorVars, frameVars, copyVars, codecVars, almanacVars>>

\* The forward search ends; __init__ completes.
SearchForwardsEnd ==
    /\ raw.pc = "_search_forwards"
    /\ ~(raw.fileLocation < Len(inputFile))
    /\ raw' = Finalize(raw)
    /\ UNCHANGED <<inputFile, result, phasorVars, frameVars, copyVars, codecVars, almanacVars>>

SearchBackwardsStep ==
    /\ raw.pc = "_search_backwards"
    /\ raw.pos > raw.statusSize
    /\ raw' = BackwardIterate(inputFile, raw)
    /\ UNCHANGED <<inputFile, result, phasorVars, frameVars, copyVars, codecVars, almanacVars>>

\* The backward search ends, by its loop test or by the break of line 193;
\* __init__ completes.
SearchBackwardsEnd ==
    /\ \/ raw.pc = "_search_backwards" /\ ~(raw.pos > raw.statusSize)
       \/ raw.pc = "_search_backwards_end"
    /\ raw' = Finalize(BackwardEnd(raw))
    /\ UNCHANGED <<inputFile, result, phasorVars, frameVars, copyVars, codecVars, almanacVars>>

\* A call read_frame(iStatus) on the constructed object.
ReadFrame(iStatus) ==
    /\ raw.pc = "open"
    /\ LET r == read_frame(inputFile, raw, iStatus)
       IN  raw' = r.self /\ result' = r.result
    /\ UNCHANGED <<inputFile, phasorVars, frameVars, copyVars, codecVars, almanacVars>>

NextFile ==
    \/ FindStatus
    \/ SearchForwardsStep
    \/ SearchForwardsEnd
    \/ SearchBackwardsStep
    \/ SearchBackwardsEnd
    \/ \E iStatus \in -1..(MaxFrames + 2) : ReadFrame(iStatus)

(***************************************************************************)
(* LMAFrame (raw_io.py)                                                    *)
(***************************************************************************)
\* Bound of the frames: records per frame.
MaxRecords == 3

\* 1e9, the nanoseconds of the second (line 371).
OneSecond == 1000000000

\* The timestamps, powers (thousandths of a dBm) and decimation windows drawn.
Nanos == {0, 249999999, 250000000, 500000000, 999999999}
Powers == {-62200, -13400}
DecimateWindows == {250000000, 400000000, 999999999, 1000000000}

FrameRecords == [nano : Nanos, power : Powers, aboveThresh : {1}]

FrameArrays == UNION {[1..n -> FrameRecords] : n \in 0..MaxRecords}

\* The inner while of decimate with <= for the < of line 378.
RECURSIVE WindowScan_Inclusive(_, _, _, _)
WindowScan_Inclusive(a, limit, i, maxPeak) ==
    IF a[i + 1].nano <= limit
    THEN LET peak == IF a[i + 1].power > maxPeak.power THEN a[i + 1] ELSE maxPeak
         IN  IF i + 1 >= Len(a) THEN [i |-> i + 1, maxPeak |-> peak]
             ELSE WindowScan_Inclusive(a, limit, i + 1, peak)
    ELSE [i |-> i, maxPeak |-> maxPeak]

\* The inner while of decimate (lines 378-385) from record i: [i, maxPeak].
RECURSIVE WindowScan(_, _, _, _)
WindowScan(a, limit, i, maxPeak) ==
    IF a[i + 1].nano < limit
    THEN LET peak == IF a[i + 1].power > maxPeak.power THEN a[i + 1] ELSE maxPeak
         IN  IF i + 1 >= Len(a) THEN [i |-> i + 1, maxPeak |-> peak]
             ELSE WindowScan(a, limit, i + 1, peak)
    ELSE [i |-> i, maxPeak |-> maxPeak]

\* The loop test of decimate (line 371).
DecimateLoopTest(a, W, nano, i) == nano + W < OneSecond /\ i < Len(a)

\* The outer while of decimate (lines 371-389): the new _arr.
RECURSIVE DecimateLoop(_, _, _, _, _)
DecimateLoop(a, W, nano, i, out) ==
    IF ~DecimateLoopTest(a, W, nano, i) THEN out
    ELSE IF a[i + 1].nano >= nano + W THEN DecimateLoop(a, W, nano + W, i, out)
    ELSE LET r == WindowScan(a, nano + W, i, a[i + 1])
         IN  DecimateLoop(a, W, nano, r.i, Append(out, r.maxPeak))

\* decimate(windowLength) (lines 365-393).
decimate(a, W) == DecimateLoop(a, W, 0, 0, <<>>)

NoOp == [op |-> "new", W |-> 0, before |-> <<>>]

InitFrameIdle ==
    /\ arr = <<>>
    /\ lastOp = NoOp

InitFrame ==
    /\ arr \in FrameArrays
    /\ lastOp = [prev |-> NoOp] @@ NoOp

\* A call decimate(W); lastOp records the call, the frame before it and the
\* call before it.
Decimate(W) ==
    /\ arr' = decimate(arr, W)
    /\ lastOp' = [op |-> "decimate", W |-> W, before |-> arr,
                  prev |-> [op |-> lastOp.op, W |-> lastOp.W, before |-> lastOp.before]]
    /\ UNCHANGED <<phasorVars, fileVars, copyVars, codecVars, almanacVars>>

NextFrame == \E W \in DecimateWindows : Decimate(W)

(***************************************************************************)
(* LMAFrame objects and their arrays: copy, append, decimate by reference  *)
(***************************************************************************)
\* Bound of the calls made on the two frames.
MaxCalls == 3

\* The records appended, the arrays f starts with and the windows used.
CopyRecords == {r \in FrameRecords : r.nano \in {0, 250000000} /\ r.power = -13400}
CopyArrays == UNION {[1..n -> CopyRecords] : n \in 0..2}
CopyWindows == {250000000, 1000000000}

\* A frame object: arr is the identity in heap of the array self._arr
\* refers to, 0 when self._arr is None (line 332 with no inputArray).
NewFrame(id) == [kind |-> "LMAFrame", arr |-> id]

\* What a call leaves: the arrays, the object called, the returned value
\* and the exception raised ("" for none).
Outcome(h, self, ret, err) == [heap |-> h, self |-> self, ret |-> ret, err |-> err]

\* append (lines 336-350): a frame without an array gets a new empty one
\* (line 341); the array is resized in place and the record stored last.
LMAFrame_append(h, self, rec) ==
    IF self.arr = 0
    THEN Outcome(Append(h, <<rec>>), NewFrame(Len(h) + 1), None, "")
    ELSE Outcome([h EXCEPT ![self.arr] = Append(@, rec)], self, None, "")

\* copy (lines 352-363): _arr.copy() is a new array with the same records;
\* in place it replaces self._arr and nothing is returned, otherwise a new
\* LMAFrame holding it is returned.  None has no copy().
LMAFrame_copy(h, self, inplace) ==
    IF self.arr = 0 THEN Outcome(h, self, None, "AttributeError")
    ELSE IF inplace
    THEN Outcome(Append(h, h[self.arr]), NewFrame(Len(h) + 1), None, "")
    ELSE Outcome(Append(h, h[self.arr]), self, NewFrame(Len(h) + 1), "")

\* decimate (lines 365-393) on the object: the result is a new array
\* (lines 366, 392).  Without an array, len(None) of line 371 raises unless
\* the first half of the loop test already fails.
LMAFrame_decimate(h, self, W) ==
    IF self.arr = 0
    THEN IF 0 + W < OneSecond THEN Outcome(h, self, None, "TypeError")
         ELSE Outcome(Append(h, <<>>), NewFrame(Len(h) + 1), None, "")
    ELSE Outcome(Append(h, decimate(h[self.arr], W)), NewFrame(Len(h) + 1), None, "")

\* The records of a frame object (<<>> when it has no array).
Records(h, fr) == IF fr.arr = 0 THEN <<>> ELSE h[fr.arr]

Unbound == [kind |-> "unbound"]
NoneValue == [kind |-> "None"]
NoCall == [op |-> "new", target |-> "", inplace |-> FALSE, err |-> ""]

InitCopyIdle ==
    /\ heap = <<>>
    /\ frameF = NewFrame(0)
    /\ frameF2 = Unbound
    /\ lastCall = NoCall
    /\ nCalls = 0

InitCopy ==
    /\ \E a \in CopyArrays, given \in BOOLEAN :
          /\ heap = IF given THEN <<a>> ELSE <<>>
          /\ frameF = IF given THEN NewFrame(1) ELSE NewFrame(0)
    /\ frameF2 = Unbound
    /\ lastCall = NoCall
    /\ nCalls = 0

\* f2 = f.copy(inplace): a call that raises binds nothing.
CopyCall(inplace) ==
    /\ nCalls < MaxCalls
    /\ LET o == LMAFrame_copy(heap, frameF, inplace)
       IN  /\ heap' = o.heap
           /\ frameF' = o.self
           /\ frameF2' = IF o.err # "" THEN frameF2
                    ELSE IF o.ret = None THEN NoneValue ELSE o.ret
           /\ lastCall' = [op |-> "copy", target |-> "f", inplace |-> inplace,
                           err |-> o.err]
    /\ nCalls' = nCalls + 1
    /\ UNCHANGED <<phasorVars, fileVars, frameVars, codecVars, almanacVars>>

\* f.append(...) or f.decimate(W).
CallOnF(op, rec, W) ==
    /\ nCalls < MaxCalls
    /\ LET o == IF op = "append" THEN LMAFrame_append(heap, frameF, rec)
                ELSE LMAFrame_decimate(heap, frameF, W)
       IN  /\ heap' = o.heap
           /\ frameF' = o.self
           /\ lastCall' = [op |-> op, target |-> "f", inplace |-> FALSE, err |-> o.err]
    /\ nCalls' = nCalls + 1
    /\ UNCHANGED <<frameF2, phasorVars, fileVars, frameVars, codecVars, almanacVars>>

\* f2.append(...) or f2.decimate(W); None has neither method.
CallOnF2(op, rec, W) ==
    /\ nCalls < MaxCalls
    /\ frameF2 # Unbound
    /\ IF frameF2 = NoneValue
       THEN /\ lastCall' = [op |-> op, target |-> "f2", inplace |-> FALSE,
                            err |-> "AttributeError"]
            /\ UNCHANGED <<heap, frameF2>>
       ELSE LET o == IF op = "append" THEN LMAFrame_append(heap, frameF2, rec)
                     ELSE LMAFrame_decimate(heap, frameF2, W)
            IN  /\ heap' = o.heap
                /\ frameF2' = o.self
                /\ lastCall' = [op |-> op, target |-> "f2", inplace |-> FALSE,
                                err |-> o.err]
    /\ nCalls' = nCalls + 1
    /\ UNCHANGED <<frameF, phasorVars, fileVars, frameVars, codecVars, almanacVars>>

NextCopy ==
    \/ \E inplace \in BOOLEAN : CopyCall(inplace)
    \/ \E op \in {"append", "decimate"}, rec \in CopyRecords, W \in CopyWindows :
          CallOnF(op, rec, W)
    \/ \E op \in {"append", "decimate"}, rec \in CopyRecords, W \in CopyWindows :
          CallOnF2(op, rec, W)

(***************************************************************************)
(* The packet decoders called on records built from known field values     *)
(***************************************************************************)
\* An oldest-family status record (the layout decode_89 reads): six
\* negative words.
EncodeStatus89(fd) ==
    Flatten(<<
        WordBytes(32768 + fd.version * 128 + (fd.year - 2000)),
        WordBytes(32768 + (IF fd.phaseDiff < 0 THEN 16384 ELSE 0)
                  + Abs(fd.phaseDiff) * 256 + fd.threshold),
        WordBytes(32768 + fd.second * 64 + fd.minute),
        WordBytes(32768 + fd.hour * 512 + fd.day * 16 + fd.month),
        WordBytes(32768 + fd.id * 256 + (fd.triggerCount \div 512)),
        WordBytes(32768 + (fd.triggerCount % 512)) >>)

\* s with the sign bit of word k (from 1) flipped; s itself for k = 0.
FlipSign(s, k) ==
    IF k = 0 THEN s
    ELSE [j \in 1..Len(s) |-> IF j = 2 * k THEN (s[j] + 128) % 256 ELSE s[j]]

\* The families of status layouts by version.
OldestFamily == {8, 9}
MiddleFamily == {10, 11}
CurrentFamily == {12, 13}

StatusVersions == {8, 10, 11, 12, 13}
DataVersions == 8..14
CodecIds == {FileId, 64 + 130}
CodecCounts == {0, 5, 16383}
CodecPhases == {-3, 0, 7}

\* The known field values of a status record.
CodecStatusFields(version, id, triggerCount, phaseDiff) ==
    [version |-> version, year |-> 2020, month |-> 1, day |-> 9, hour |-> 0,
     minute |-> 0, second |-> 3, threshold |-> 100, triggerCount |-> triggerCount,
     id |-> IF version \in OldestFamily THEN id % 128 ELSE id,
     netid |-> IF version \in CurrentFamily THEN FileNetid ELSE 64,
     phaseDiff |-> phaseDiff, gpsInfo |-> 1003]

\* The bytes of the record: an oldest-family record is 12 bytes, given alone
\* or, as find_status reads 18 bytes, followed by the data record after it.
CodecStatusBytes(fd, padded) ==
    IF fd.version \in OldestFamily
    THEN EncodeStatus89(fd)
         \o (IF padded THEN EncodeData(DataFields("plain", fd.version, 0)) ELSE <<>>)
    ELSE EncodeStatus(fd)

CodecStatusInputs ==
    {LET fd == CodecStatusFields(v, id, tc, pd)
         base == CodecStatusBytes(fd, padded)
     IN  [kind |-> "status", fields |-> fd, version |-> v, phaseDiff |-> pd,
          base |-> base, flip |-> k, inputString |-> FlipSign(base, k)] :
       v \in StatusVersions, id \in CodecIds, tc \in CodecCounts, pd \in CodecPhases,
       padded \in BOOLEAN, k \in 0..9}

\* The known field values of data records: those of the files, and one with
\* every bit of the three words set that the sign pattern allows.
CodecDataFields ==
    {DataFields("plain", 12, n) : n \in 0..2}
    \cup {DataFields("loud", 12, 2)}
    \cup {[ticks |-> 2047, window |-> 32767, maxData |-> 255, aboveThresh |-> 2047]}

CodecDataInputs ==
    {LET base == EncodeData(fd)
     IN  [kind |-> "data", fields |-> fd, version |-> v, phaseDiff |-> pd,
          base |-> base, flip |-> k, inputString |-> FlipSign(base, k)] :
       fd \in CodecDataFields, v \in DataVersions, pd \in CodecPhases, k \in 0..3}

\* The inputs: a flip names a word the record has.
CodecInputs ==
    {c \in CodecStatusInputs \cup CodecDataInputs : 2 * c.flip <= Len(c.base)}

InitCodecIdle ==
    /\ codecIn = None
    /\ codecOut = None
    /\ codecCall = "none"

InitCodec ==
    /\ codecIn \in CodecInputs
    /\ codecOut = None
    /\ codecCall = "none"

\* StatusPacket(inputString).
DecodeStatus ==
    /\ codecIn.kind = "status"
    /\ codecOut = None
    /\ codecOut' = StatusPacket(codecIn.inputString)
    /\ codecCall' = "__init__"
    /\ UNCHANGED <<codecIn, phasorVars, fileVars, frameVars, copyVars, almanacVars>>

\* DataPacket(inputString, version, phaseDiff) and the reads of its fields.
DecodeData ==
    /\ codecIn.kind = "data"
    /\ codecOut = None
    /\ codecOut' = DataPacket(codecIn.inputString, codecIn.version, codecIn.phaseDiff)
    /\ codecCall' = "__init__"
    /\ UNCHANGED <<codecIn, phasorVars, fileVars, frameVars, copyVars, almanacVars>>

\* The constructor returned a status packet.
StatusObject ==
    /\ codecIn # None
    /\ codecIn.kind = "status"
    /\ codecOut # None
    /\ codecOut.ok

\* The constructor returned a data packet: its reads gave a record, or
\* failed on an attribute decode never set.
DataObject ==
    /\ codecIn # None
    /\ codecIn.kind = "data"
    /\ codecOut # None
    /\ IF codecOut.ok THEN TRUE ELSE codecOut.err = "AttributeError"

\* p.method() on the status packet the constructor returned.
CallStatusMethod(method) ==
    /\ StatusObject
    /\ codecOut' = [ok |-> TRUE,
                    pkt |-> StatusMethod(codecOut.pkt, Unpack(codecIn.inputString, 9),
                                         method)]
    /\ codecCall' = method
    /\ UNCHANGED <<codecIn, phasorVars, fileVars, frameVars, copyVars, almanacVars>>

\* d.method() on the data packet the constructor returned, and the reads of
\* its fields.
CallDataMethod(method) ==
    /\ DataObject
    /\ codecOut' = DataMethod(codecOut, Unpack(codecIn.inputString, 3),
                              codecIn.version, codecIn.phaseDiff, method)
    /\ codecCall' = method
    /\ UNCHANGED <<codecIn, phasorVars, fileVars, frameVars, copyVars, almanacVars>>

StatusPacket_decode == CallStatusMethod("decode")
StatusPacket_decode_89 == CallStatusMethod("decode_89")
StatusPacket_decode_1011 == CallStatusMethod("decode_1011")
StatusPacket_decode_1213 == CallStatusMethod("decode_1213")
DataPacket_decode == CallDataMethod("decode")
DataPacket_decode_8 == CallDataMethod("decode_8")
DataPacket_decode_9 == CallDataMethod("decode_9")
DataPacket_decode_12 == CallDataMethod("decode_12")

NextCodec ==
    \/ DecodeStatus
    \/ DecodeData
    \/ StatusPacket_decode
    \/ StatusPacket_decode_89
    \/ StatusPacket_decode_1011
    \/ StatusPacket_decode_1213
    \/ DataPacket_decode
    \/ DataPacket_decode_8
    \/ DataPacket_decode_9
    \/ DataPacket_decode_12

(***************************************************************************)
(* decode_gpsInfo on a new RawLMAFile object                               *)
(***************************************************************************)
\* Bound of the observations made.
MaxObs == 3

ObsSeconds == 0..12
ObsGpsInfos == {258, 65535}
Slots == 0..11

InitAlmanacIdle ==
    /\ slotSeen = [s \in Slots |-> -1]
    /\ nObs = 0

\* The object as __init__ leaves it before find_status.
InitAlmanac ==
    /\ inputFile = <<>>
    /\ raw = NewRawLMAFile(FALSE)
    /\ result = None
    /\ slotSeen = [s \in Slots |-> -1]
    /\ nObs = 0

\* self.decode_gpsInfo(statusPacket) for a status record of the given second
\* and gpsInfo.
Observe(second, gpsInfo) ==
    /\ nObs < MaxObs
    /\ raw' = decode_gpsInfo(raw, [second |-> second, gpsInfo |-> gpsInfo])
    /\ slotSeen' = [slotSeen EXCEPT ![second % 12] = gpsInfo]
    /\ nObs' = nObs + 1
    /\ UNCHANGED <<inputFile, result, phasorVars, frameVars, copyVars, codecVars>>

NextAlmanac == \E second \in ObsSeconds, gpsInfo \in ObsGpsInfos : Observe(second, gpsInfo)

(***************************************************************************)
(* Specifications                                                          *)
(***************************************************************************)
NextPhasor == PhaseRawData \/ GuessIterate \/ GuessReturn

IdleCodecAlmanac == InitCodecIdle /\ InitAlmanacIdle

InitSpecPhasor == InitPhasor /\ InitFileIdle /\ InitFrameIdle /\ InitCopyIdle /\ IdleCodecAlmanac
InitSpecFile == InitPhasorIdle /\ InitFile /\ InitFrameIdle /\ InitCopyIdle /\ IdleCodecAlmanac
InitSpecFrame == InitPhasorIdle /\ InitFileIdle /\ InitFrame /\ InitCopyIdle /\ IdleCodecAlmanac
InitSpecCopy == InitPhasorIdle /\ InitFileIdle /\ InitFrameIdle /\ InitCopy /\ IdleCodecAlmanac
InitSpecCodec ==
    InitPhasorIdle /\ InitFileIdle /\ InitFrameIdle /\ InitCopyIdle /\ InitCodec /\ InitAlmanacIdle
InitSpecAlmanac ==
    InitPhasorIdle /\ InitAlmanac /\ InitFrameIdle /\ InitCopyIdle /\ InitCodecIdle

SpecPhasor == InitSpecPhasor /\ [][NextPhasor]_vars

SpecFile == InitSpecFile /\ [][NextFile]_vars

SpecFrame == InitSpecFrame /\ [][NextFrame]_vars

SpecCopy == InitSpecCopy /\ [][NextCopy]_vars

SpecCodec == InitSpecCodec /\ [][NextCodec]_vars

SpecAlmanac == InitSpecAlmanac /\ [][NextAlmanac]_vars

(***************************************************************************)
(* Properties: the correlator                                              *)
(***************************************************************************)
\* The scenario of C1: three sensors with one peak each, source times within
\* 50 ns of each other, min_sensors = 2 and a window length of at least 50 ns.
C1Scenario ==
    /\ phPc \in {"find_initial_guesses", "done", "IndexError"}
    /\ DOMAIN frames = Sensors
    /\ \A s \in Sensors : Len(frames[s]) = 1
    /\ minSensors = 2
    /\ windowLength >= 50
    /\ \A a, b \in 1..Len(sortedPeaks) : sortedPeaks[b].src - sortedPeaks[a].src < 50

\* C1: in the three-sensor scenario the coincidence scan completes (it does
\* not stop on an index error) and, once it has returned, has reported exactly
\* one cluster, the index range [0, 3).
C1_OneClusterOfThree ==
    C1Scenario =>
        /\ phPc # "IndexError"
        /\ phPc = "done" => guesses = << <<0, 3>> >>

\* C2 as stated: no accepted cluster starts before the recorded end index of
\* the cluster accepted before it.
C2_StartNotBeforePreviousEnd ==
    \A k \in 2..Len(guesses) : guesses[k][1] >= guesses[k - 1][2]

\* C2 as amended: every accepted cluster ends past the recorded end index of
\* the cluster accepted before it, which is the watermark lastGuess; a later
\* cluster may start before that end.
C2_EndPastPreviousEnd ==
    /\ \A k \in 2..Len(guesses) : guesses[k][2] > guesses[k - 1][2]
    /\ lastGuess = IF guesses = <<>> THEN 0 ELSE guesses[Len(guesses)][2]

\* Two clusters accepted, the second starting inside the first.
C2_Witness ==
    /\ Len(guesses) >= 2
    /\ guesses[2][1] < guesses[1][2]
    /\ guesses[2][2] > guesses[1][2]

(***************************************************************************)
(* Properties: the file scanner and the frame reader                       *)
(***************************************************************************)
\* C3: on a well-formed fixed-rate file the forward and the backward search
\* produce the same sequence of boundary offsets: the constructed object's
\* statusLocations are those the other search produces on the same file.
C3_ScansAgree ==
    (raw.pc = "open" /\ inputFile \in WellFormedFiles) =>
        LET other == RawLMAFile(inputFile, ~raw.decimated)
        IN  other.pc = "open" /\ other.statusLocations = raw.statusLocations

\* The search is about to read a record that decodes as a status record of
\* another sensor or network than the bootstrap record's.
ForeignStatusNext ==
    \/ /\ raw.pc = "_search_forwards"
       /\ raw.fileLocation < Len(inputFile)
       /\ LET r == StatusPacket(ReadBytes(inputFile, raw.fileLocation, raw.statusSize))
          IN  r.ok /\ ~SameSensor(raw, r.pkt)
    \/ /\ raw.pc = "_search_backwards"
       /\ raw.pos > raw.statusSize
       /\ LET r == StatusPacket(ReadBytes(inputFile, raw.pos - raw.statusSize,
                                          raw.statusSize))
          IN  r.ok /\ ~SameSensor(raw, r.pkt)

\* C4: in either search, a record that decodes as a status record of another
\* sensor or network aborts the scan: the constructor raises the
\* inconsistent-stream failure and no boundary index results.
C4_MismatchAborts ==
    [][ForeignStatusNext => (raw'.pc = "raised" /\ raw'.err = "InconsistentStream")]_vars

\* The backward search is about to read a status record of the file's sensor
\* whose stride back, trigger_count * 6 + status size, passes byte 0.
StrideUnderflowNext ==
    /\ raw.pc = "_search_backwards"
    /\ raw.pos > raw.statusSize
    /\ LET r == StatusPacket(ReadBytes(inputFile, raw.pos - raw.statusSize,
                                       raw.statusSize))
       IN  /\ r.ok
           /\ SameSensor(raw, r.pkt)
           /\ raw.pos - (r.pkt.triggerCount * 6 + raw.statusSize) < 0

StrictlyAscending(s) == \A k \in 1..(Len(s) - 1) : s[k] < s[k + 1]

\* C5: when the stride back from a decoded status record would pass byte 0,
\* the backward search warns and stops without raising, and the constructor
\* ends with the boundary index: the placeholder, then the boundaries found
\* so far (that record's included) in ascending offset order.
C5_UnderflowWarnsAndStops ==
    [][/\ StrideUnderflowNext =>
            /\ raw'.pc = "_search_backwards_end"
            /\ raw'.warned
            /\ raw'.err = ""
            /\ raw'.statusLocations =
                  Append(raw.statusLocations, raw.pos - raw.statusSize)
       /\ raw.pc = "_search_backwards_end" =>
            /\ raw'.pc = "open"
            /\ raw'.err = ""
            /\ raw'.statusLocations = <<0>> \o Reverse(raw.statusLocations)
            /\ StrictlyAscending(raw'.statusLocations)
            /\ raw'.statusPackets[1] = None
            /\ \A k \in 2..Len(raw'.statusPackets) : raw'.statusPackets[k] # None
      ]_vars

\* The constructor ended after the warning, with two boundaries found.
C5_Witness ==
    /\ raw.pc = "open"
    /\ raw.warned
    /\ Len(raw.statusLocations) = 3

\* C6: read_frame(i) raises the index-out-of-range failure exactly when
\* i <= 0 or i >= len(boundaries), and then leaves the object (the file
\* position, the boundary index, the status records) as it was.
C6_IndexOutOfRange ==
    [][raw.pc = "open" =>
          LET i == result'.iStatus
              refused == i <= 0 \/ i >= Len(raw.statusLocations)
          IN  /\ refused <=> (result'.kind = "raised" /\ result'.err = "IndexOutOfRange")
              /\ refused => raw' = raw
      ]_vars

\* read_frame was refused a negative index, index 0 and an index past the end
\* being refused alike on an object with a readable frame.
C6_Witness ==
    /\ raw.pc = "open"
    /\ Len(raw.statusLocations) >= 2
    /\ result # None
    /\ result.kind = "raised"
    /\ result.err = "IndexOutOfRange"
    /\ result.iStatus = -1

\* C7: read_frame(i) fails with the truncated-data failure whenever the count
\* of records it expects, times 6, exceeds the length of the span
\* [boundaries[i-1] + status size, boundaries[i]).
C7_TruncatedData ==
    [][raw.pc = "open" =>
          LET i == result'.iStatus
          IN  (i >= 1 /\ i < Len(raw.statusLocations)) =>
                LET readStart == raw.statusLocations[i] + raw.statusSize
                    readEnd == raw.statusLocations[i + 1]
                    expected == FrameCount(raw.decimated, raw.statusPackets[i + 1],
                                           readStart, readEnd)
                IN  expected * 6 > readEnd - readStart =>
                        (result'.kind = "raised" /\ result'.err = "TruncatedData")
      ]_vars

\* C8: the frame read_frame(i) returns holds as many records as the governing
\* status record counts for a fixed-rate file, and span length / 6 for a
\* decimated file, whatever that status record counts.
C8_FrameCount ==
    (raw.pc = "open" /\ result # None /\ result.kind = "LMAFrame") =>
        LET i == result.iStatus
            span == raw.statusLocations[i + 1] - raw.statusLocations[i] - raw.statusSize
        IN  Len(result.arr) = IF raw.decimated THEN span \div 6
                              ELSE raw.statusPackets[i + 1].triggerCount

\* A decimated file gave a frame with records, their number not the one its
\* status record counts.
C8_Witness ==
    /\ raw.pc = "open"
    /\ result # None
    /\ result.kind = "LMAFrame"
    /\ raw.decimated
    /\ Len(result.arr) > 0
    /\ result.statusPacket.triggerCount # Len(result.arr)

(***************************************************************************)
(* Properties: the frame                                                   *)
(***************************************************************************)
\* Records in non-decreasing nanosecond order.
Sorted(a) == \A j \in 1..(Len(a) - 1) : a[j].nano <= a[j + 1].nano

\* The windows of length W that partition the second, numbered from 0, the
\* last one ending at 1e9.
NumWindows(W) == (OneSecond + W - 1) \div W

\* The positions in a of the records whose timestamp falls in window k.
InWindow(a, W, k) == {j \in 1..Len(a) : k * W <= a[j].nano /\ a[j].nano < (k + 1) * W}

\* The windows that hold a record, in chronological order.
NonEmptyWindows(a, W) ==
    SetToSeq({k \in 0..(NumWindows(W) - 1) : InWindow(a, W, k) # {}})

\* C9: decimate(W) of a frame in non-decreasing nanosecond order leaves, for
\* every window of the second that holds a record, the final window ending at
\* 1e9 included, exactly one record, a maximum-power record of that window,
\* and nothing else, in chronological window order.
C9_OnePerWindow ==
    (lastOp.op = "decimate" /\ Sorted(lastOp.before)) =>
        LET a == lastOp.before
            W == lastOp.W
            ks == NonEmptyWindows(a, W)
        IN  /\ Len(arr) = Len(ks)
            /\ \A m \in 1..Len(ks) :
                  \E j \in InWindow(a, W, ks[m]) :
                      /\ arr[m] = a[j]
                      /\ \A l \in InWindow(a, W, ks[m]) : a[l].power <= a[j].power

\* C10: decimate(W) applied to the result of decimate(W) on a frame in
\* non-decreasing nanosecond order leaves the records as they are.
C10_Idempotent ==
    (/\ lastOp.op = "decimate"
     /\ lastOp.prev.op = "decimate"
     /\ lastOp.prev.W = lastOp.W
     /\ Sorted(lastOp.prev.before)) => arr = lastOp.before

\* decimate(W) twice in a row, the first call dropping a record and leaving at
\* least two.
C10_Witness ==
    /\ lastOp.op = "decimate"
    /\ lastOp.prev.op = "decimate"
    /\ lastOp.prev.W = lastOp.W
    /\ Sorted(lastOp.prev.before)
    /\ Len(lastOp.prev.before) > Len(arr)
    /\ Len(arr) >= 2

(***************************************************************************)
(* Properties: frame copies                                                *)
(***************************************************************************)
\* C11: f2 = f.copy(), the call as the claim writes it, returns a frame
\* with a backing store of its own that holds the records of f: the call
\* completes, f2 is a frame, its array is not the array of f, and its
\* records are those f had.
C11_CopyReturnsIndependentFrame ==
    [][(nCalls' = nCalls + 1 /\ lastCall'.op = "copy" /\ lastCall'.inplace) =>
          /\ lastCall'.err = ""
          /\ frameF2'.kind = "LMAFrame"
          /\ frameF.arr # 0 => frameF2'.arr # frameF'.arr
          /\ Records(heap', frameF2') = Records(heap, frameF)
      ]_vars

\* What the code does give: f2 = f.copy(inplace=False) on a frame with an
\* array binds f2 to a frame with a new array holding the records of f and
\* leaves f as it was, and afterwards no append or decimate on one of the
\* two frames changes the other.
CopyNotInPlaceIndependent ==
    [][nCalls' = nCalls + 1 =>
          /\ (lastCall'.op = "copy" /\ ~lastCall'.inplace /\ frameF.arr # 0) =>
                /\ lastCall'.err = ""
                /\ frameF2'.kind = "LMAFrame"
                /\ frameF2'.arr \notin {0, frameF'.arr}
                /\ frameF2'.arr \notin DOMAIN heap
                /\ Records(heap', frameF2') = Records(heap, frameF)
                /\ frameF' = frameF
          /\ (lastCall'.target = "f2" /\ lastCall'.op \in {"append", "decimate"}) =>
                /\ frameF' = frameF
                /\ Records(heap', frameF') = Records(heap, frameF)
          /\ (lastCall'.target = "f" /\ lastCall'.op \in {"append", "decimate"}
              /\ frameF2.kind = "LMAFrame") =>
                /\ frameF2' = frameF2
                /\ Records(heap', frameF2') = Records(heap, frameF2)
      ]_vars

(***************************************************************************)
(* C12                                                                     *)
(***************************************************************************)
\* The words of the bytes handed to the decoder.
CodecWords == Unpack(codecIn.inputString, Len(codecIn.inputString) \div 2)

\* The record was built in a layout the decoder reads and the sign bit of
\* one of its words was flipped.
FlippedValidRecord ==
    /\ codecIn.flip # 0
    /\ codecIn.kind = "status" => codecIn.version \in MiddleFamily \cup CurrentFamily

\* C12: a status record decodes only if every one of its words is negative
\* and a data record only if its words have the signs (non-negative,
\* negative, non-negative); the decode of a valid record with the sign bit
\* of any single word flipped fails with MalformedRecord.
C12_SignPattern ==
    codecOut # None =>
        /\ (codecIn.kind = "status" /\ codecOut.ok)
               => \A k \in 1..9 : Negative(CodecWords[k])
        /\ (codecIn.kind = "data" /\ codecOut.ok)
               => /\ ~Negative(CodecWords[1])
                  /\ Negative(CodecWords[2])
                  /\ ~Negative(CodecWords[3])
        /\ FlippedValidRecord => codecOut = [ok |-> FALSE, err |-> "MalformedRecord"]

\* A current-family status record with the sign of its last word flipped
\* was refused.
C12_Witness ==
    /\ codecIn # None
    /\ codecIn.kind = "status"
    /\ codecIn.version = 12
    /\ codecIn.flip = 9
    /\ codecOut # None
    /\ ~codecOut.ok

(***************************************************************************)
(* C13                                                                     *)
(***************************************************************************)
\* The decode reproduced the field values the record was built from.
Reproduces(out, fd) ==
    /\ out.ok
    /\ out.pkt.id = fd.id
    /\ out.pkt.netid = (IF fd.version \in CurrentFamily THEN fd.netid ELSE 0)
    /\ out.pkt.triggerCount = fd.triggerCount
    /\ out.pkt.phaseDiff = fd.phaseDiff

\* A status record of one of the layout families, decoded as built.
StatusAsBuilt(family) ==
    /\ codecIn # None
    /\ codecIn.kind = "status"
    /\ codecIn.flip = 0
    /\ codecIn.version \in family
    /\ codecOut # None
    /\ codecCall = "__init__"

\* C13: for each of the three layout families, the decode of a status
\* record built from known field values reproduces the sensor id, the
\* network id, the trigger count and the signed phase difference.
C13_StatusRoundTrip ==
    \A family \in {OldestFamily, MiddleFamily, CurrentFamily} :
        StatusAsBuilt(family) => Reproduces(codecOut, codecIn.fields)

\* The round trip of the two nine-word families alone.
C13_NineWordRoundTrip ==
    \A family \in {MiddleFamily, CurrentFamily} :
        StatusAsBuilt(family) => Reproduces(codecOut, codecIn.fields)

(***************************************************************************)
(* C14                                                                     *)
(***************************************************************************)
\* A data record with the right signs was decoded.
SignValidDataDecoded ==
    /\ codecIn # None
    /\ codecIn.kind = "data"
    /\ codecIn.flip = 0
    /\ codecOut # None
    /\ codecCall = "__init__"

\* C14: the decode of a sign-valid data record yields a complete record
\* (timestamp, power, count above threshold) for every version the status
\* decode accepts (10, 11, 12, 13) and fails with UnsupportedVersion for
\* every other version; it never yields a record without timestamp or power.
C14_DataDecodeTotal ==
    SignValidDataDecoded =>
        IF codecIn.version \in MiddleFamily \cup CurrentFamily
        THEN /\ codecOut.ok
             /\ {"nano", "power", "aboveThresh"} \subseteq DOMAIN codecOut.rec
        ELSE codecOut = [ok |-> FALSE, err |-> "UnsupportedVersion"]

(***************************************************************************)
(* C15                                                                     *)
(***************************************************************************)
\* C15: once a scan has completed, boundary 0 is the placeholder (offset 0,
\* no status record) and every boundary from 1 on carries a decoded status
\* record with the id and netid of the bootstrap record.
C15_PlaceholderAndSameSensor ==
    (raw # None /\ raw.pc = "open") =>
        /\ Len(raw.statusLocations) >= 1
        /\ Len(raw.statusPackets) = Len(raw.statusLocations)
        /\ raw.statusLocations[1] = 0
        /\ raw.statusPackets[1] = None
        /\ \A k \in 2..Len(raw.statusPackets) :
              /\ raw.statusPackets[k] # None
              /\ raw.statusPackets[k].id = raw.id
              /\ raw.statusPackets[k].netid = raw.netid

\* A file of two seconds was scanned backwards to its end.
C15_Witness ==
    /\ raw # None
    /\ raw.pc = "open"
    /\ ~raw.decimated
    /\ Len(raw.statusLocations) >= 3

(***************************************************************************)
(* C18                                                                     *)
(***************************************************************************)
\* The forward search is about to try the candidate at fileLocation.
ForwardCandidateNext ==
    /\ raw # None
    /\ raw.pc = "_search_forwards"
    /\ raw.fileLocation < Len(inputFile)

\* The candidate decodes as a status record of the file's sensor.
CandidateMatches ==
    LET r == StatusPacket(ReadBytes(inputFile, raw.fileLocation, raw.statusSize))
    IN  r.ok /\ r.pkt.id = raw.id /\ r.pkt.netid = raw.netid

\* The almanac fields of the object.
Almanac(self) ==
    <<self.gpslat, self.gpslon, self.gpsalt, self.lat, self.lon, self.alt, self.vel,
      self.brg, self.satTracked, self.satVisible, self.satStat, self.temp>>

\* C18: a step of the forward scan adds the candidate offset to the
\* boundaries if and only if the candidate decodes as a status record whose
\* id and netid are the file's; a rejected candidate leaves the boundaries,
\* the end epoch and the almanac unchanged and the scan goes on 3 bytes
\* further; an accepted one moves the scan on by one status-record size.
C18_ForwardStepRule ==
    [][ForwardCandidateNext =>
         IF CandidateMatches
         THEN /\ raw'.statusLocations = Append(raw.statusLocations, raw.fileLocation)
              /\ Len(raw'.statusPackets) = Len(raw.statusPackets) + 1
              /\ raw'.fileLocation = raw.fileLocation + raw.statusSize
         ELSE /\ raw'.statusLocations = raw.statusLocations
              /\ raw'.statusPackets = raw.statusPackets
              /\ raw'.endEpoch = raw.endEpoch
              /\ Almanac(raw') = Almanac(raw)
              /\ raw'.fileLocation = raw.fileLocation + 3
              /\ raw'.pc = "_search_forwards"]_vars

\* The forward search took a status record and then rejected the candidate
\* just after it.
C18_Witness ==
    /\ raw # None
    /\ raw.pc = "_search_forwards"
    /\ Len(raw.statusLocations) >= 2
    /\ raw.fileLocation
         = raw.statusLocations[Len(raw.statusLocations)] + raw.statusSize + 3

(***************************************************************************)
(* C16                                                                     *)
(***************************************************************************)
\* Source time of row k (from 0) of the merged sequence.
SourceTime(k) == sortedPeaks[k + 1].src

\* The length of the window grown from row i, when a row past it exists:
\* rows i..i+n-1 lie within the window length of row i and row i+n does not.
WindowFrom(i) ==
    CHOOSE n \in 1..(Len(sortedPeaks) - i - 1) :
        /\ \A k \in i..(i + n - 1) : SourceTime(k) - SourceTime(i) < windowLength
        /\ SourceTime(i + n) - SourceTime(i) >= windowLength

\* The number of distinct sensors in rows [i, e).
DistinctSensors(i, e) == Cardinality({sortedPeaks[k + 1].sensor : k \in i..(e - 1)})

\* An iteration of the scan ran to its end.
IterationCompleted == phPc = "find_initial_guesses" /\ phPc' = "find_initial_guesses"

\* C16: an iteration of the coincidence scan appends the window [i, i+n) if
\* and only if n > min_sensors, the window holds more than min_sensors
\* distinct sensors and i+n is past the watermark; i advances by exactly 1
\* after acceptance and after rejection; hence every reported cluster holds
\* at least min_sensors + 1 distinct sensors.
C16_AcceptanceRule ==
    /\ [][IterationCompleted =>
            LET i == iGuess
                n == WindowFrom(i)
                accept == /\ n > minSensors
                          /\ DistinctSensors(i, i + n) > minSensors
                          /\ i + n > lastGuess
            IN  /\ iGuess' = i + 1
                /\ guesses' = IF accept THEN Append(guesses, <<i, i + n>>) ELSE guesses
                /\ lastGuess' = IF accept THEN i + n ELSE lastGuess]_vars
    /\ [](\A k \in 1..Len(guesses) :
             DistinctSensors(guesses[k][1], guesses[k][2]) >= minSensors + 1)

\* A cluster was accepted and a later window was rejected.
C16_Witness ==
    /\ phPc = "find_initial_guesses"
    /\ Len(guesses) >= 1
    /\ iGuess > guesses[Len(guesses)][1] + 1

(***************************************************************************)
(* C17                                                                     *)
(***************************************************************************)
\* C17: every reported cluster [i, e) is the maximal window from its start:
\* every row in it is less than the window length after row i, and the row
\* at index e, when there is one, is at least the window length after row i.
C17_MaximalWindow ==
    \A g \in 1..Len(guesses) :
        LET i == guesses[g][1]
            e == guesses[g][2]
        IN  /\ i < e
            /\ \A k \in i..(e - 1) : SourceTime(k) - SourceTime(i) < windowLength
            /\ e < Len(sortedPeaks) => SourceTime(e) - SourceTime(i) >= windowLength

\* A cluster of at least two rows was reported, with a row after it.
C17_Witness ==
    /\ Len(guesses) >= 1
    /\ guesses[1][2] - guesses[1][1] >= 2
    /\ guesses[1][2] < Len(sortedPeaks)

(***************************************************************************)
(* C20                                                                     *)
(***************************************************************************)
\* C20: the coincidence scan terminates normally on every merged sequence:
\* the window-growth test never reads an index past the end of the sequence.
C20_GrowthStaysInRange == phPc # "IndexError"

(***************************************************************************)
(* C19                                                                     *)
(***************************************************************************)
\* x is what the most recent observation of the slot gave, or still the
\* initial value when the slot was never observed.
Latest(slot, x, initial, value(_)) ==
    x = IF slotSeen[slot] = -1 THEN initial ELSE value(slotSeen[slot])

Whole(g) == g
HighByte(g) == (g \div 256) % 256
LowByte(g) == g % 256
Low12(g) == g % 4096
Celsius(g) == (g \div 256) - 40

\* The object as constructed.
Fresh == NewRawLMAFile(FALSE)

\* C19: after any sequence of observations every component of the almanac
\* holds the value of the most recent observation of its own slot (second
\* mod 12), and is as constructed when its slot was never observed: the high
\* halves (bits 16-31) of latitude, longitude, altitude and velocity belong
\* to slots 0, 2, 4, 6, the low halves (bits 0-15) to slots 1, 3, 5, 7,
\* bearing, satellite counts, satellite status and temperature to slots 8 to
\* 11; so an observation changes only the component of its slot.
C19_SlotsIndependent ==
    /\ Latest(0, raw.gpslat.hi, 0, Whole)
    /\ Latest(1, raw.gpslat.lo, 0, Whole)
    /\ Latest(2, raw.gpslon.hi, 0, Whole)
    /\ Latest(3, raw.gpslon.lo, 0, Whole)
    /\ Latest(4, raw.gpsalt.hi, 0, Whole)
    /\ Latest(5, raw.gpsalt.lo, 0, Whole)
    /\ Latest(6, raw.vel.hi, 0, Whole)
    /\ Latest(7, raw.vel.lo, 0, Whole)
    /\ Latest(8, raw.brg, Fresh.brg, Whole)
    /\ Latest(9, raw.satTracked, Fresh.satTracked, HighByte)
    /\ Latest(9, raw.satVisible, Fresh.satVisible, LowByte)
    /\ Latest(10, raw.satStat, Fresh.satStat, Low12)
    /\ Latest(11, raw.temp, Fresh.temp, Celsius)
    /\ (slotSeen[0] # -1 \/ slotSeen[1] # -1) => raw.lat = convert_latlon(raw.gpslat)
    /\ (slotSeen[2] # -1 \/ slotSeen[3] # -1) => raw.lon = convert_latlon(raw.gpslon)
    /\ (slotSeen[4] # -1 \/ slotSeen[5] # -1) => raw.alt = raw.gpsalt
    /\ (slotSeen[0] = -1 /\ slotSeen[1] = -1) => raw.lat = Fresh.lat
    /\ (slotSeen[2] = -1 /\ slotSeen[3] = -1) => raw.lon = Fresh.lon
    /\ (slotSeen[4] = -1 /\ slotSeen[5] = -1) => raw.alt = Fresh.alt
    /\ [raw EXCEPT !.gpslat = Fresh.gpslat, !.gpslon = Fresh.gpslon,
                   !.gpsalt = Fresh.gpsalt, !.lat = Fresh.lat, !.lon = Fresh.lon,
                   !.alt = Fresh.alt, !.vel = Fresh.vel, !.brg = Fresh.brg,
                   !.satTracked = Fresh.satTracked, !.satVisible = Fresh.satVisible,
                   !.satStat = Fresh.satStat, !.temp = Fresh.temp] = Fresh

\* Both halves of the longitude were observed, with different values, and a
\* third observation was made.
C19_Witness ==
    /\ nObs = MaxObs
    /\ slotSeen[2] # -1
    /\ slotSeen[3] # -1
    /\ slotSeen[2] # slotSeen[3]
    /\ raw.gpslon = [hi |-> slotSeen[2], lo |-> slotSeen[3]]

(***************************************************************************)
(* C21                                                                     *)
(***************************************************************************)
\* C21: once a scan has completed, by either search and also when the
\* backward search stopped on its warning, the boundary offsets increase
\* strictly with the index and consecutive offsets are at least one
\* status-record size apart, so that every span read_frame reads,
\* [statusLocations[i-1] + statusSize, statusLocations[i]), has a
\* non-negative length.
C21_BoundariesSpaced ==
    (raw # None /\ raw.pc = "open") =>
        \A k \in 2..Len(raw.statusLocations) :
            /\ raw.statusLocations[k - 1] < raw.statusLocations[k]
            /\ raw.statusLocations[k] - raw.statusLocations[k - 1] >= raw.statusSize
            /\ raw.statusLocations[k] - (raw.statusLocations[k - 1] + raw.statusSize) >= 0

====
